---- MODULE Spec2Model ----
(***************************************************************************)
(* Model of mayan/apps/common/generics.py: the generic class based views.  *)
(* A view object lives for one request, so the state is the last request   *)
(* handled: which handler ran, its inputs, the calls it made to the hooks  *)
(* a subclass supplies, the flash messages it added and what it returned.  *)
(* AssignRemoveView also has the membership it edits and settings.DEBUG.   *)
(***************************************************************************)
EXTENDS Integers, Sequences, FiniteSets, TLC

VARIABLES
    handler,    \* name of the handler that served the last request
    request,    \* the inputs of that request
    log,        \* calls made to hooks / collaborators, in order
    msgs,       \* flash messages added to the request, in order
    response,   \* what the handler returned or raised
    members,    \* AssignRemoveView: items currently in the right list
    DEBUG       \* settings.DEBUG

vars == <<handler, request, log, msgs, response, members, DEBUG>>

(* ------------------------------ bounds -------------------------------- *)
MaxAhead == 3       \* classes ahead of the generic view in a subclass' MRO
MaxRows == 2        \* rows of a queryset
MaxValue == 2       \* values a sortable field takes

(* ------------------------------ helpers ------------------------------- *)
None == [some |-> FALSE, v |-> <<>>]
Some(x) == [some |-> TRUE, v |-> x]

\* QueryDict.get(key): the value, or None when the key is absent
DictGet(d, k) == IF k \in DOMAIN d THEN Some(d[k]) ELSE None

\* every function from a subset of keys to vals
Dicts(keys, vals) == UNION {[ks -> vals] : ks \in SUBSET keys}

SeqsUpTo(S, n) == UNION {[1..k -> S] : k \in 0..n}

Range(s) == {s[i] : i \in DOMAIN s}

(* ------------------- get_queryset overloading guard -------------------- *)
GuardedViews ==
    {"MultipleObjectDownloadView", "SingleObjectDownloadView",
     "MultipleObjectFormActionView", "MultipleObjectConfirmActionView",
     "SingleObjectDeleteView", "SingleObjectDetailView",
     "SingleObjectListView"}

\* views of the module that define no __init__ and so do not check
UnguardedViews == {"SingleObjectCreateView", "SingleObjectEditView"}

\* The MRO of a class derived from generic view g: the classes ahead of g
\* (the class itself first), then g.  ahead[i] tells whether the i-th class
\* defines get_queryset in its own body.  g always defines it.
Mro(g, ahead) ==
    [i \in 1..Len(ahead) |-> [name |-> <<"Derived", i>>, defines |-> ahead[i]]]
        \o <<[name |-> <<g, 0>>, defines |-> TRUE]>>

\* cls.get_queryset: attribute lookup walks the MRO and yields the function
\* of the first class that defines it (named here by its defining class)
MutLookupGetQueryset(mro) ==
    IF mro[1].defines THEN mro[1].name ELSE mro[Len(mro)].name

LookupGetQueryset(mro) ==
    LET i == CHOOSE j \in DOMAIN mro :
                 mro[j].defines /\ \A k \in 1..(j - 1) : ~mro[k].defines
    IN mro[i].name

\* __init__ of a guarded view: raises when self.__class__.mro()[0]
\* resolves get_queryset to something else than the view's own
ViewInit(g, ahead) ==
    IF g \in GuardedViews
          /\ LookupGetQueryset(Mro(g, ahead)) # LookupGetQueryset(Mro(g, <<>>))
    THEN [raised |-> "ImproperlyConfigured"]
    ELSE [raised |-> "nothing"]

Construct ==
    /\ handler = "none"
    /\ \E g \in GuardedViews \cup UnguardedViews, ahead \in SeqsUpTo(BOOLEAN, MaxAhead) :
        /\ handler' = "__init__"
        /\ request' = [view |-> g, ahead |-> ahead]
        /\ log' = <<>>
        /\ msgs' = <<>>
        /\ response' = ViewInit(g, ahead)
        /\ UNCHANGED <<members, DEBUG>>

(* -------------------- SingleObjectListView.get_queryset ---------------- *)
TEXT_SORT_FIELD_PARAMETER == "_sort_field"
TEXT_SORT_ORDER_PARAMETER == "_sort_order"
TEXT_SORT_ORDER_CHOICE_ASCENDING == <<"a", "s", "c">>

\* model fields a list can be sorted by, as strings of characters
FieldNames == {<<"a">>, <<"b">>}

Rows == [pk : 1..MaxRows, f : [FieldNames -> 1..MaxValue]]

\* querysets: sequences of rows with distinct primary keys
Querysets ==
    {q \in SeqsUpTo(Rows, MaxRows) :
        \A i, j \in DOMAIN q : i # j => q[i].pk # q[j].pk}

\* values the two query parameters take
SortFieldValues == FieldNames \cup {<<>>}
SortOrderValues == {<<"a", "s", "c">>, <<"d", "e", "s", "c">>, <<>>, <<"A", "S", "C">>}

GetParams ==
    {d \in Dicts({TEXT_SORT_FIELD_PARAMETER, TEXT_SORT_ORDER_PARAMETER},
                 SortFieldValues \cup SortOrderValues) :
        /\ TEXT_SORT_FIELD_PARAMETER \in DOMAIN d
              => d[TEXT_SORT_FIELD_PARAMETER] \in SortFieldValues
        /\ TEXT_SORT_ORDER_PARAMETER \in DOMAIN d
              => d[TEXT_SORT_ORDER_PARAMETER] \in SortOrderValues}

get_sort_field(GET) == DictGet(GET, TEXT_SORT_FIELD_PARAMETER)
get_sort_order(GET) == DictGet(GET, TEXT_SORT_ORDER_PARAMETER)

\* QuerySet.order_by(arg): a leading "-" asks for descending order of the
\* field named by the rest.  The database fixes the order of ties, so every
\* ordering of the rows that is sorted on the field is a possible result.
IsOrdered(q, name, descending) ==
    \A i, j \in DOMAIN q :
        i < j => IF descending THEN q[i].f[name] >= q[j].f[name]
                               ELSE q[i].f[name] <= q[j].f[name]

order_by(q, arg) ==
    LET descending == Len(arg) > 0 /\ Head(arg) = "-"
        name == IF descending THEN Tail(arg) ELSE arg
    IN {r \in {[i \in DOMAIN q |-> q[p[i]]] : p \in Permutations(DOMAIN q)} :
           IsOrdered(r, name, descending)}

\* super().get_queryset(): raises ImproperlyConfigured when the view has no
\* queryset configured, else the rows of it the user has been granted
SuperGetQueryset(queryset, granted) ==
    IF ~queryset.some THEN [raised |-> TRUE, qs |-> <<>>]
    ELSE [raised |-> FALSE,
          qs |-> SelectSeq(queryset.v, LAMBDA row : row.pk \in granted)]

RestrictedQueryset(queryset, source, granted) ==
    IF SuperGetQueryset(queryset, granted).raised
    THEN SuperGetQueryset(Some(source), granted).qs
    ELSE SuperGetQueryset(queryset, granted).qs

MutSortPrefix(GET) == <<"-">>

SortPrefix(GET) ==
    IF get_sort_order(GET) = Some(TEXT_SORT_ORDER_CHOICE_ASCENDING)
    THEN <<>> ELSE <<"-">>

\* the set of querysets get_queryset may return
ListGetQueryset(queryset, source, granted, GET) ==
    LET restricted == RestrictedQueryset(queryset, source, granted)
        field_name == get_sort_field(GET)
    IN IF field_name.some /\ field_name.v # <<>>
       THEN order_by(restricted, SortPrefix(GET) \o field_name.v)
       ELSE {restricted}

ListView ==
    /\ handler = "none"
    /\ \E source \in Querysets, configured \in BOOLEAN,
       granted \in SUBSET (1..MaxRows), GET \in GetParams :
        LET queryset == IF configured THEN Some(source) ELSE None IN
        \E result \in ListGetQueryset(queryset, source, granted, GET) :
            /\ handler' = "SingleObjectListView.get_queryset"
            /\ request' = [GET |-> GET, queryset |-> queryset,
                           source |-> source, granted |-> granted]
            /\ log' = <<>>
            /\ msgs' = <<>>
            /\ response' = [queryset |-> result]
            /\ UNCHANGED <<members, DEBUG>>

(* --------------------- MultipleObjectFormActionView -------------------- *)
FormData == 0..MaxValue
Outcomes == {"ok", "raise"}

Call(name, arg) == [call |-> name, arg |-> arg]

\* form_valid(form): view_action(form=form), then the inherited form_valid,
\* which redirects to the success URL.  An exception of view_action leaves
\* the method before the redirect is built.
MutFormActionFormValid(form, view_action) ==
    [log |-> <<Call("HttpResponseRedirect", "success_url")>>,
     response |-> [kind |-> "redirect", to |-> "success_url"]]

FormActionFormValid(form, view_action) ==
    IF view_action = "raise"
    THEN [log |-> <<Call("view_action", form)>>,
          response |-> [kind |-> "raised", to |-> "view_action"]]
    ELSE [log |-> <<Call("view_action", form),
                    Call("HttpResponseRedirect", "success_url")>>,
          response |-> [kind |-> "redirect", to |-> "success_url"]]

\* the inherited form_invalid renders the bound form again
FormInvalid(form) ==
    [log |-> <<Call("render_to_response", form)>>,
     response |-> [kind |-> "render", to |-> "form"]]

\* the inherited post(): build the form from the POST data and hand it to
\* form_valid or form_invalid
FormActionPost(form, view_action) ==
    IF form.is_valid THEN FormActionFormValid(form, view_action)
    ELSE FormInvalid(form)

\* the inherited get() renders the form, which is not bound to any data
UnboundForm == [data |-> -1, is_valid |-> FALSE]

FormActionGet ==
    [log |-> <<Call("render_to_response", UnboundForm)>>,
     response |-> [kind |-> "render", to |-> "form"]]

FormActionView ==
    /\ handler = "none"
    /\ \E method \in {"GET", "POST"}, data \in FormData,
          accepted \in SUBSET FormData, view_action \in Outcomes :
        LET form == IF method = "POST"
                    THEN [data |-> data, is_valid |-> data \in accepted]
                    ELSE UnboundForm
            out == IF method = "POST" THEN FormActionPost(form, view_action)
                   ELSE FormActionGet
        IN /\ handler' = "MultipleObjectFormActionView"
           /\ request' = [method |-> method, form |-> form,
                          accepted |-> accepted, view_action |-> view_action]
           /\ log' = out.log
           /\ msgs' = <<>>
           /\ response' = out.response
           /\ UNCHANGED <<members, DEBUG>>

(* ------------- SingleObjectCreateView / SingleObjectEditView ----------- *)
Titles == 1..MaxValue
Exceptions == {"IntegrityError", "ValueError"}

\* get_object_name(): the text form of the object, which shows its state
ObjectName(obj) == <<obj.title, obj.pk>>

Message(level, obj_name, text, error) ==
    [level |-> level, object |-> obj_name, text |-> text, error |-> error]

\* setattr(self.object, key, value) for the items of get_instance_extra_data
ApplyExtraData(obj, extra) ==
    [k \in DOMAIN obj |-> IF k \in DOMAIN extra THEN extra[k] ELSE obj[k]]

\* SingleObjectCreateView.form_valid.  unique is the outcome of
\* validate_unique(), save that of save(): "ok" or the exception raised.
\* save() gives the new object its primary key.
MutCreateFormValid(obj, extra, duplicate_message, unique, save, new_pk) ==
    LET object == ApplyExtraData(obj, extra)
        saved == [object EXCEPT !.pk = new_pk]
    IN IF unique # "ok"
       THEN [msgs |-> <<Message("error", <<>>, "Duplicate data error", unique)>>,
             response |-> [kind |-> "render", to |-> "form_invalid"],
             object |-> object]
       ELSE IF save # "ok"
       THEN [msgs |-> <<Message("error", ObjectName(object),
                                "not created, error", save)>>,
             response |-> [kind |-> "redirect", to |-> "success_url"],
             object |-> object]
       ELSE [msgs |-> <<Message("success", ObjectName(saved),
                                "created successfully.", "")>>,
             response |-> [kind |-> "redirect", to |-> "success_url"],
             object |-> saved]

CreateFormValid(obj, extra, duplicate_message, unique, save, new_pk) ==
    LET object == ApplyExtraData(obj, extra)
        saved == [object EXCEPT !.pk = new_pk]
    IN IF unique # "ok"
       THEN [msgs |-> <<IF duplicate_message.some
                        THEN Message("error", <<>>, duplicate_message.v, "")
                        ELSE Message("error", <<>>, "Duplicate data error", unique)>>,
             response |-> [kind |-> "render", to |-> "form_invalid"],
             object |-> object]
       ELSE IF save # "ok"
       THEN [msgs |-> <<Message("error", ObjectName(object),
                                "not created, error", save)>>,
             response |-> [kind |-> "render", to |-> "form_invalid"],
             object |-> object]
       ELSE [msgs |-> <<Message("success", ObjectName(saved),
                                "created successfully.", "")>>,
             response |-> [kind |-> "redirect", to |-> "success_url"],
             object |-> saved]

\* SingleObjectEditView.form_valid: the object name is taken before save()
EditFormValid(obj, extra, save) ==
    LET object == ApplyExtraData(obj, extra)
        object_name == ObjectName(object)
    IN IF save # "ok"
       THEN [msgs |-> <<Message("error", object_name, "not updated, error", save)>>,
             response |-> [kind |-> "render", to |-> "form_invalid"],
             object |-> object]
       ELSE [msgs |-> <<Message("success", object_name, "updated successfully.", "")>>,
             response |-> [kind |-> "redirect", to |-> "success_url"],
             object |-> object]

\* what get_instance_extra_data returns, None when the view has no such hook
ExtraData == {None} \cup {Some([title |-> t]) : t \in Titles}

CreateView ==
    /\ handler = "none"
    /\ \E title \in Titles, extra \in ExtraData,
          duplicate_message \in {None, Some("Duplicate")},
          unique \in {"ok", "ValidationError"},
          save \in {"ok"} \cup Exceptions :
        LET obj == [pk |-> 0, title |-> title]
            out == CreateFormValid(obj, IF extra.some THEN extra.v ELSE <<>>,
                                   duplicate_message, unique, save, 1)
        IN /\ handler' = "SingleObjectCreateView.form_valid"
           /\ request' = [object |-> obj, extra |-> extra, unique |-> unique,
                          duplicate_message |-> duplicate_message, save |-> save]
           /\ log' = <<>>
           /\ msgs' = out.msgs
           /\ response' = out.response
           /\ UNCHANGED <<members, DEBUG>>

EditView ==
    /\ handler = "none"
    /\ \E pk \in 1..MaxRows, title \in Titles, extra \in ExtraData,
          save \in {"ok"} \cup Exceptions :
        LET obj == [pk |-> pk, title |-> title]
            out == EditFormValid(obj, IF extra.some THEN extra.v ELSE <<>>, save)
        IN /\ handler' = "SingleObjectEditView.form_valid"
           /\ request' = [object |-> obj, extra |-> extra, save |-> save]
           /\ log' = <<>>
           /\ msgs' = out.msgs
           /\ response' = out.response
           /\ UNCHANGED <<members, DEBUG>>

(* ------------------------ SingleObjectDeleteView ----------------------- *)
\* the inherited delete(): deleting clears the primary key of the instance
\* and redirects; a failure raises and leaves the instance as it was
SuperDelete(obj, outcome) ==
    IF outcome = "ok"
    THEN [object |-> [obj EXCEPT !.pk = 0],
          response |-> [kind |-> "redirect", to |-> "success_url"]]
    ELSE [object |-> obj, response |-> [kind |-> "raised", to |-> outcome]]

MutDeleteObjectName(before, after) == ObjectName(after)

\* the name delete() puts in its message: taken from the object as it was
\* before super().delete() ran
DeleteObjectName(before, after) == ObjectName(before)

Delete(obj, outcome) ==
    LET result == SuperDelete(obj, outcome)
        object_name == DeleteObjectName(obj, result.object)
    IN IF outcome # "ok"
       THEN [msgs |-> <<Message("error", object_name, "not deleted, error", outcome)>>,
             response |-> [kind |-> "raised", to |-> outcome],
             object |-> result.object]
       ELSE [msgs |-> <<Message("success", object_name, "deleted successfully.", "")>>,
             response |-> result.response,
             object |-> result.object]

DeleteView ==
    /\ handler = "none"
    /\ \E pk \in 1..MaxRows, title \in Titles, outcome \in {"ok"} \cup Exceptions :
        LET obj == [pk |-> pk, title |-> title]
            out == Delete(obj, outcome)
        IN /\ handler' = "SingleObjectDeleteView.delete"
           /\ request' = [object |-> obj, outcome |-> outcome]
           /\ log' = <<Call("delete", obj)>>
           /\ msgs' = out.msgs
           /\ response' = [kind |-> out.response.kind, to |-> out.response.to,
                           object |-> out.object]
           /\ UNCHANGED <<members, DEBUG>>

(* ----------------------------- MultiFormView --------------------------- *)
MaxForms == 3       \* entries of form_classes

\* get_form_classes(): form names in the iteration order of the dict
FormClasses ==
    {fc \in SeqsUpTo(1..MaxForms, MaxForms) :
        \A i, j \in DOMAIN fc : i # j => fc[i] # fc[j]}

\* get_forms(form_classes): one bound form per entry, keyed by its name;
\* valid[i] is what is_valid() will answer for the i-th form
get_forms(form_classes, valid) ==
    [i \in DOMAIN form_classes |-> [name |-> form_classes[i], is_valid |-> valid[i]]]

\* [form.is_valid() for form in forms.values()]: the list is built in full
\* before all() looks at it
RECURSIVE MutValidate(_)
MutValidate(forms) ==
    IF forms = <<>> THEN <<>>
    ELSE IF ~Head(forms).is_valid THEN <<Call("is_valid", Head(forms).name)>>
    ELSE <<Call("is_valid", Head(forms).name)>> \o MutValidate(Tail(forms))

Validate(forms) == [i \in DOMAIN forms |-> Call("is_valid", forms[i].name)]

\* forms_valid(forms): the first form the view has a '<name>_form_valid'
\* method for decides the response; without any, all_forms_valid and redirect
MutFormsValid(forms, methods) ==
    LET have == {i \in DOMAIN forms : forms[i].name \in methods}
    IN IF have # {}
       THEN LET i == CHOOSE j \in have : \A k \in have : j >= k
            IN [log |-> <<Call("_form_valid", forms[i])>>,
                response |-> [kind |-> "returned", to |-> "_form_valid",
                              by |-> forms[i].name]]
       ELSE [log |-> <<Call("all_forms_valid", forms),
                       Call("HttpResponseRedirect", "success_url")>>,
             response |-> [kind |-> "redirect", to |-> "success_url", by |-> 0]]

forms_valid(forms, methods) ==
    LET have == {i \in DOMAIN forms : forms[i].name \in methods}
    IN IF have # {}
       THEN LET i == CHOOSE j \in have : \A k \in have : j <= k
            IN [log |-> <<Call("_form_valid", forms[i])>>,
                response |-> [kind |-> "returned", to |-> "_form_valid",
                              by |-> forms[i].name]]
       ELSE [log |-> <<Call("all_forms_valid", forms),
                       Call("HttpResponseRedirect", "success_url")>>,
             response |-> [kind |-> "redirect", to |-> "success_url", by |-> 0]]

forms_invalid(forms) ==
    [log |-> <<Call("render_to_response", forms)>>,
     response |-> [kind |-> "render", to |-> "forms", by |-> 0]]

\* _create_form(key, klass) for each item of form_classes
Created(forms) == [i \in DOMAIN forms |-> Call("_create_form", forms[i].name)]

MultiFormPost(form_classes, valid, methods) ==
    LET forms == get_forms(form_classes, valid)
        validated == Validate(forms)
        out == IF \A i \in DOMAIN forms : forms[i].is_valid
               THEN forms_valid(forms, methods)
               ELSE forms_invalid(forms)
    IN [log |-> Created(forms) \o validated \o out.log, response |-> out.response]

MultiFormView ==
    /\ handler = "none"
    /\ \E form_classes \in FormClasses, methods \in SUBSET (1..MaxForms) :
       \E valid \in [DOMAIN form_classes -> BOOLEAN] :
        LET out == MultiFormPost(form_classes, valid, methods)
        IN /\ handler' = "MultiFormView.post"
           /\ request' = [form_classes |-> form_classes, valid |-> valid,
                          methods |-> methods]
           /\ log' = out.log
           /\ msgs' = <<>>
           /\ response' = out.response
           /\ UNCHANGED <<members, DEBUG>>

(* -------------------- AssignRemoveView.generate_choices ---------------- *)
MaxChoices == 3     \* objects handed to generate_choices

ModelNames == {<<"r", "o", "l", "e">>, <<"g", "r", "o", "u", "p">>}
Pks == 1..2
\* text forms of the objects, as strings of code points
Labels == {<<1>>, <<1, 2>>, <<2>>}

ChoiceObjects == [model : ModelNames, pk : Pks, text : Labels]

Digits == <<"0", "1", "2", "3", "4", "5", "6", "7", "8", "9">>

\* '%s' % pk for a non-negative integer
RECURSIVE IntText(_)
IntText(n) ==
    IF n < 10 THEN <<Digits[n + 1]>>
    ELSE IntText(n \div 10) \o <<Digits[(n % 10) + 1]>>

\* '%s,%s' % (ct.model, choice.pk)
ChoiceKey(model, pk) == model \o <<",">> \o IntText(pk)

\* a < b for strings: the first differing code point, or the shorter prefix
RECURSIVE TextLess(_, _)
TextLess(a, b) ==
    IF b = <<>> THEN FALSE
    ELSE IF a = <<>> THEN TRUE
    ELSE IF Head(a) # Head(b) THEN Head(a) < Head(b)
    ELSE TextLess(Tail(a), Tail(b))

\* code point order of the characters a key is made of
Chars == <<",", "0", "1", "2", "3", "4", "5", "6", "7", "8", "9",
           "e", "g", "l", "o", "p", "r", "u">>
Ord(c) == CHOOSE i \in DOMAIN Chars : Chars[i] = c

MutSortKey(pair) == [i \in DOMAIN pair[1] |-> Ord(pair[1][i])]

\* key=lambda x: x[1]
SortKey(pair) == pair[2]

\* sorted(results, key=SortKey): a stable sort, by insertion after the last
\* element whose key is not greater
RECURSIVE InsertBy(_, _)
InsertBy(sorted, x) ==
    IF sorted = <<>> THEN <<x>>
    ELSE IF TextLess(SortKey(x), SortKey(Head(sorted))) THEN <<x>> \o sorted
    ELSE <<Head(sorted)>> \o InsertBy(Tail(sorted), x)

RECURSIVE SortedBy(_)
SortedBy(s) ==
    IF s = <<>> THEN <<>>
    ELSE InsertBy(SortedBy(SubSeq(s, 1, Len(s) - 1)), s[Len(s)])

generate_choices(choices) ==
    LET results == [i \in DOMAIN choices |->
                       <<ChoiceKey(choices[i].model, choices[i].pk), choices[i].text>>]
    IN SortedBy(results)

GenerateChoices ==
    /\ handler = "none"
    /\ \E choices \in SeqsUpTo(ChoiceObjects, MaxChoices) :
        /\ handler' = "generate_choices"
        /\ request' = [choices |-> choices]
        /\ log' = <<>>
        /\ msgs' = <<>>
        /\ response' = generate_choices(choices)
        /\ UNCHANGED <<members, DEBUG>>

(* ---------------------------- AssignRemoveView ------------------------- *)
MaxItems == 2       \* objects that can be assigned

LEFT_LIST_NAME == "left_list"
RIGHT_LIST_NAME == "right_list"

Items == 1..MaxItems

\* the objects a subclass offers: groups, later ones sorting first
ItemObject(i) ==
    [model |-> <<"g", "r", "o", "u", "p">>, pk |-> i, text |-> <<MaxItems + 1 - i>>]

ObjectsOf(S) ==
    SelectSeq([i \in 1..MaxItems |-> ItemObject(i)], LAMBDA o : o.pk \in S)

\* left_list() / right_list() of a subclass: the choices not yet assigned and
\* the assigned ones, read from the database each time they are called;
\* a grouped view wraps them in one named group
ItemsFunction(prefix, assigned, grouped) ==
    LET choices == IF prefix = LEFT_LIST_NAME
                   THEN generate_choices(ObjectsOf(Items \ assigned))
                   ELSE generate_choices(ObjectsOf(assigned))
    IN IF grouped THEN <<<<"Groups", choices>>>> ELSE choices

\* flat_list: the (key, label) pairs of all groups, or the list itself
RECURSIVE Flatten(_)
Flatten(groups) ==
    IF groups = <<>> THEN <<>> ELSE Head(groups)[2] \o Flatten(Tail(groups))

FlatList(items, grouped) == IF grouped THEN Flatten(items) ELSE items

\* dict(flat_list)[selection]; None stands for the KeyError
DictLookup(flat_list, selection) ==
    IF \E i \in DOMAIN flat_list : flat_list[i][1] = selection
    THEN Some(flat_list[CHOOSE i \in DOMAIN flat_list :
                            /\ flat_list[i][1] = selection
                            /\ \A j \in DOMAIN flat_list :
                                  flat_list[j][1] = selection => j <= i][2])
    ELSE None

\* text.split(','): the pieces between the commas
RECURSIVE Split(_, _)
Split(text, piece) ==
    IF text = <<>> THEN <<piece>>
    ELSE IF Head(text) = "," THEN <<piece>> \o Split(Tail(text), <<>>)
    ELSE Split(Tail(text), Append(piece, Head(text)))

DigitValue(c) == (CHOOSE i \in DOMAIN Digits : Digits[i] = c) - 1

RECURSIVE ParseInt(_, _)
ParseInt(text, acc) ==
    IF text = <<>> THEN acc
    ELSE ParseInt(Tail(text), 10 * acc + DigitValue(Head(text)))

\* ContentType.objects.get(model=model).get_object_for_this_type(pk=pk)
Decode(selection) ==
    LET parts == Split(selection, <<>>)
    IN ItemObject(ParseInt(parts[2], 0))

\* the object handed to add / remove
SelectionObject(selection, decode_content_type) ==
    IF decode_content_type THEN Decode(selection) ELSE selection

\* the item a subclass' add / remove acts on, given that object
ItemOf(selection_obj, decode_content_type) ==
    IF decode_content_type THEN selection_obj.pk
    ELSE ParseInt(Split(selection_obj, <<>>)[2], 0)

\* ChoiceForm(POST, choices, prefix).is_valid(): something is selected and
\* every selected key is one of the choices
ChoiceFormIsValid(selection, flat_list) ==
    /\ selection # <<>>
    /\ \A i \in DOMAIN selection : DictLookup(flat_list, selection[i]).some

ActionName(prefix) == IF prefix = LEFT_LIST_NAME THEN "add" ELSE "remove"

\* add(item) / remove(item) of a subclass, when they do not raise
Act(prefix, assigned, item) ==
    IF prefix = LEFT_LIST_NAME THEN assigned \cup {item} ELSE assigned \ {item}

\* state threaded through post(): the membership, the calls, the messages
\* and the exception that is propagating, if any
ARState(assigned, calls, messages, raised) ==
    [members |-> assigned, log |-> calls, msgs |-> messages, raised |-> raised]

\* what an exception of the action function leads to
MutOnActionError(st, label, debug) ==
    [st EXCEPT !.msgs = Append(@, Message("error", label,
                                          "Unable to transfer selection", "")),
               !.raised = "Exception"]

OnActionError(st, label, debug) ==
    IF debug THEN [st EXCEPT !.raised = "Exception"]
    ELSE [st EXCEPT !.msgs = Append(@, Message("error", label,
                                               "Unable to transfer selection", ""))]

\* the loop over form.cleaned_data['selection']
RECURSIVE ProcessSelections(_, _, _, _, _)
ProcessSelections(selections, st, prefix, cfg, debug) ==
    IF selections = <<>> \/ st.raised # "nothing" THEN st
    ELSE
      LET selection == Head(selections)
          flat_list == FlatList(ItemsFunction(prefix, st.members, cfg.grouped),
                                cfg.grouped)
          label == DictLookup(flat_list, selection)
      IN IF ~label.some THEN [st EXCEPT !.raised = "KeyError"]
         ELSE
           LET selection_obj == SelectionObject(selection, cfg.decode_content_type)
               item == ItemOf(selection_obj, cfg.decode_content_type)
               called == [st EXCEPT !.log =
                             Append(@, Call(ActionName(prefix), selection_obj))]
               after == IF item \in cfg.fails
                        THEN OnActionError(called, label.v, debug)
                        ELSE [called EXCEPT !.members = Act(prefix, @, item)]
           IN ProcessSelections(Tail(selections), after, prefix, cfg, debug)

\* process_form of one list; skipped unless '<prefix>-submit' was posted
ProcessForm(st, prefix, POST, cfg, debug) ==
    IF <<prefix, "-submit">> \notin POST.keys THEN st
    ELSE
      LET flat_list == FlatList(ItemsFunction(prefix, st.members, cfg.grouped),
                                cfg.grouped)
          bound == [st EXCEPT !.log =
                       Append(@, Call("ChoiceForm", <<prefix, flat_list>>))]
      IN IF ChoiceFormIsValid(POST.selection[prefix], flat_list)
         THEN ProcessSelections(POST.selection[prefix], bound, prefix, cfg, debug)
         ELSE bound

\* get(): both lists are read and the page is rendered
ARGet(st, cfg) ==
    LET page == [unselected_list |-> ItemsFunction(LEFT_LIST_NAME, st.members, cfg.grouped),
                 selected_list |-> ItemsFunction(RIGHT_LIST_NAME, st.members, cfg.grouped)]
    IN [st EXCEPT !.log = Append(@, Call("render_to_response", page))]

\* post(): the left list, then the right list, then the page as for a GET;
\* an exception leaving process_form ends the request there
MutARPost(st, POST, cfg, debug) ==
    LET removed == ProcessForm(st, RIGHT_LIST_NAME, POST, cfg, debug)
        added == IF removed.raised # "nothing" THEN removed
                 ELSE ProcessForm(removed, LEFT_LIST_NAME, POST, cfg, debug)
    IN IF added.raised # "nothing" THEN added ELSE ARGet(added, cfg)

ARPost(st, POST, cfg, debug) ==
    LET added == ProcessForm(st, LEFT_LIST_NAME, POST, cfg, debug)
        removed == IF added.raised # "nothing" THEN added
                   ELSE ProcessForm(added, RIGHT_LIST_NAME, POST, cfg, debug)
    IN IF removed.raised # "nothing" THEN removed ELSE ARGet(removed, cfg)

\* what a multiple select posts: keys of distinct objects, in some order
Selections ==
    {[i \in DOMAIN s |-> ChoiceKey(ItemObject(s[i]).model, s[i])] :
        s \in {t \in SeqsUpTo(Items, MaxItems) :
                  \A i, j \in DOMAIN t : i # j => t[i] # t[j]}}

SubmitKeys == {<<LEFT_LIST_NAME, "-submit">>, <<RIGHT_LIST_NAME, "-submit">>}

\* POST data; a list that is not submitted carries no selection
PostData ==
    {p \in [keys : SUBSET SubmitKeys,
            selection : [{LEFT_LIST_NAME, RIGHT_LIST_NAME} -> Selections]] :
        \A prefix \in {LEFT_LIST_NAME, RIGHT_LIST_NAME} :
            <<prefix, "-submit">> \notin p.keys => p.selection[prefix] = <<>>}

\* class attributes of the subclass and the items its add / remove reject
ARConfigs == [grouped : BOOLEAN, decode_content_type : BOOLEAN, fails : SUBSET Items]

AssignRemovePost ==
    /\ handler = "none"
    /\ \E POST \in PostData, cfg \in ARConfigs :
        LET out == ARPost(ARState(members, <<>>, <<>>, "nothing"), POST, cfg, DEBUG)
        IN /\ handler' = "AssignRemoveView.post"
           /\ request' = [POST |-> POST, cfg |-> cfg, members |-> members]
           /\ log' = out.log
           /\ msgs' = out.msgs
           /\ response' = [kind |-> IF out.raised = "nothing" THEN "render" ELSE "raised",
                           to |-> out.raised]
           /\ members' = out.members
           /\ UNCHANGED DEBUG

AssignRemoveGet ==
    /\ handler = "none"
    /\ \E cfg \in ARConfigs :
        LET out == ARGet(ARState(members, <<>>, <<>>, "nothing"), cfg)
        IN /\ handler' = "AssignRemoveView.get"
           /\ request' = [cfg |-> cfg, members |-> members]
           /\ log' = out.log
           /\ msgs' = <<>>
           /\ response' = [kind |-> "render", to |-> "nothing"]
           /\ UNCHANGED <<members, DEBUG>>

(* ------------------------------ behaviour ------------------------------ *)
\* the response has been sent: the view object and its request are dropped
Finish ==
    /\ handler # "none"
    /\ handler' = "none"
    /\ request' = <<>>
    /\ log' = <<>>
    /\ msgs' = <<>>
    /\ response' = <<>>
    /\ UNCHANGED <<members, DEBUG>>

Init ==
    /\ handler = "none"
    /\ request = <<>>
    /\ log = <<>>
    /\ msgs = <<>>
    /\ response = <<>>
    /\ members = {}
    /\ DEBUG = FALSE

Next ==
    \/ Construct
    \/ ListView
    \/ FormActionView
    \/ CreateView
    \/ EditView
    \/ DeleteView
    \/ MultiFormView
    \/ GenerateChoices
    \/ Finish

Spec == Init /\ [][Next]_vars

\* AssignRemoveView on its own: any membership, either value of DEBUG
InitAR ==
    /\ handler = "none"
    /\ request = <<>>
    /\ log = <<>>
    /\ msgs = <<>>
    /\ response = <<>>
    /\ members \in SUBSET Items
    /\ DEBUG \in BOOLEAN

NextAR ==
    \/ AssignRemoveGet
    \/ AssignRemovePost
    \/ Finish

SpecAR == InitAR /\ [][NextAR]_vars

(* ------------------------------ claims --------------------------------- *)

\* C1: constructing a subclass of one of the seven guarded generic views
\* raises ImproperlyConfigured exactly when some class ahead of the generic
\* view in the MRO (the subclass included) overrides get_queryset; a
\* subclass that overrides nothing constructs without raising.
C1_GuardRaisesIffOverridden ==
    (handler = "__init__" /\ request.view \in GuardedViews) =>
        (response.raised = "ImproperlyConfigured"
            <=> \E i \in DOMAIN request.ahead : request.ahead[i])

\* a mixin ahead of the view overrides get_queryset, the subclass does not
C1_Witness ==
    /\ handler = "__init__"
    /\ request.view = "SingleObjectDeleteView"
    /\ Len(request.ahead) = 2
    /\ ~request.ahead[1] /\ request.ahead[2]
    /\ response.raised = "ImproperlyConfigured"

\* C2: with a non-empty sort field the result is the restricted queryset
\* ordered on that field, ascending iff the sort order equals the ascending
\* choice and descending otherwise (absent included); with no sort field or
\* an empty one the restricted queryset is returned as it is; the objects
\* returned are those of the restricted queryset in every case.
C2_Restricted ==
    RestrictedQueryset(request.queryset, request.source, request.granted)

RECURSIVE CountCalls(_, _)
CountCalls(l, name) ==
    IF l = <<>> THEN 0
    ELSE (IF Head(l).call = name THEN 1 ELSE 0) + CountCalls(Tail(l), name)

C4_OneMessagePerSubmission ==
    handler \in {"SingleObjectCreateView.form_valid",
                 "SingleObjectEditView.form_valid"} =>
        LET saved == /\ request.save = "ok"
                     /\ handler = "SingleObjectCreateView.form_valid"
                            => request.unique = "ok"
        IN /\ Len(msgs) = 1
           /\ saved => /\ msgs[1].level = "success"
                       /\ response = [kind |-> "redirect", to |-> "success_url"]
           /\ ~saved => /\ msgs[1].level = "error"
                        /\ response = [kind |-> "render", to |-> "form_invalid"]

\* save() of a created object raised: one error message, the form again
C4_Witness ==
    /\ handler = "SingleObjectCreateView.form_valid"
    /\ request.unique = "ok"
    /\ request.save = "IntegrityError"
    /\ Len(msgs) = 1
    /\ msgs[1].level = "error"
    /\ response.kind = "render"

\* C5: delete() adds one error message naming the object and re-raises the
\* same exception when the deletion raises, and adds one success message
\* naming the object and returns the deletion's response when it succeeds;
\* the name is the one the object had before the deletion was attempted.
C5_DeleteMessages ==
    handler = "SingleObjectDeleteView.delete" =>
        /\ Len(msgs) = 1
        /\ msgs[1].object = ObjectName(request.object)
        /\ IF request.outcome = "ok"
           THEN /\ msgs[1].level = "success"
                /\ response.kind = "redirect"
                /\ response.to = SuperDelete(request.object, "ok").response.to
           ELSE /\ msgs[1].level = "error"
                /\ response.kind = "raised"
                /\ response.to = request.outcome

\* a successful deletion changed the object's text form; the message
\* carries the earlier one
C5_Witness ==
    /\ handler = "SingleObjectDeleteView.delete"
    /\ request.outcome = "ok"
    /\ ObjectName(response.object) # ObjectName(request.object)
    /\ msgs[1] = Message("success", ObjectName(request.object),
                         "deleted successfully.", "")

\* C6: post() builds one form per entry of get_form_classes() and validates
\* every one of them, also after an invalid one; forms_valid runs iff all
\* are valid; otherwise forms_invalid renders the same forms again, calls
\* neither all_forms_valid nor a '<name>_form_valid' method, and does not
\* redirect.
C6_Forms == get_forms(request.form_classes, request.valid)

C6_AllValid == \A i \in DOMAIN request.valid : request.valid[i]

C6_ValidatesAllForms ==
    handler = "MultiFormView.post" =>
        LET n == Len(request.form_classes) IN
        /\ Len(log) > 2 * n
        /\ \A i \in 1..n :
              /\ log[i] = Call("_create_form", request.form_classes[i])
              /\ log[n + i] = Call("is_valid", request.form_classes[i])
        /\ CountCalls(log, "_create_form") = n
        /\ CountCalls(log, "is_valid") = n
        /\ C6_AllValid <=> response.kind \in {"returned", "redirect"}
        /\ C6_AllValid <=> CountCalls(log, "_form_valid")
                               + CountCalls(log, "all_forms_valid") > 0
        /\ ~C6_AllValid =>
              /\ SubSeq(log, 2 * n + 1, Len(log))
                     = <<Call("render_to_response", C6_Forms)>>
              /\ response.kind = "render"

\* the first form is invalid, the later ones were validated all the same
C6_Witness ==
    /\ handler = "MultiFormView.post"
    /\ Len(request.form_classes) = 3
    /\ ~request.valid[1] /\ request.valid[2] /\ request.valid[3]
    /\ CountCalls(log, "is_valid") = 3
    /\ response.kind = "render"

\* C7: generate_choices returns one (key, label) pair per input object, the
\* key being '<model name>,<pk>' and the label the object's text, in
\* non-decreasing order of the label.
C7_PairOf(choice) == <<ChoiceKey(choice.model, choice.pk), choice.text>>

C7_SortedByLabel ==
    handler = "generate_choices" =>
        /\ Len(response) = Len(request.choices)
        /\ \E p \in Permutations(DOMAIN response) :
              \A i \in DOMAIN response : response[i] = C7_PairOf(request.choices[p[i]])
        /\ \A i, j \in DOMAIN response :
              i < j => ~TextLess(response[j][2], response[i][2])

\* two objects whose labels order them against their keys
C7_Witness ==
    /\ handler = "generate_choices"
    /\ Len(response) = 2
    /\ response[1][1] = <<"r", "o", "l", "e", ",", "2">>
    /\ response[2][1] = <<"g", "r", "o", "u", "p", ",", "1">>
    /\ TextLess(response[1][2], response[2][2])
    /\ response[1] = C7_PairOf(request.choices[2])

\* C10: when all forms are valid and the view has a '<name>_form_valid'
\* method for some form, exactly one such method is called, that of the
\* first such form in iteration order, its return value is the response and
\* all_forms_valid is not called; when the view has none, all_forms_valid is
\* called once with all forms and the response is a redirect to the success
\* URL.
C10_Have == {i \in DOMAIN request.form_classes :
                request.form_classes[i] \in request.methods}

C10_FirstHandlerDecides ==
    (handler = "MultiFormView.post" /\ C6_AllValid) =>
        LET n == Len(request.form_classes)
            calls == SubSeq(log, 2 * n + 1, Len(log))
        IN IF C10_Have # {}
           THEN \E i \in C10_Have :
                   /\ \A k \in C10_Have : i <= k
                   /\ calls = <<Call("_form_valid", C6_Forms[i])>>
                   /\ response = [kind |-> "returned", to |-> "_form_valid",
                                  by |-> request.form_classes[i]]
           ELSE /\ calls = <<Call("all_forms_valid", C6_Forms),
                             Call("HttpResponseRedirect", "success_url")>>
                /\ response.kind = "redirect"
                /\ response.to = "success_url"

\* two forms have a method; the one of the earlier form was called
C10_Witness ==
    /\ handler = "MultiFormView.post"
    /\ C6_AllValid
    /\ Cardinality(C10_Have) = 2
    /\ 1 \notin C10_Have
    /\ CountCalls(log, "_form_valid") = 1
    /\ response.kind = "returned"
    /\ response.by = request.form_classes[2]

CallsOf(l, name) == SelectSeq(l, LAMBDA e : e.call = name)

IndicesOf(l, name) == {i \in DOMAIN l : l[i].call = name}

\* the item an add / remove call of the log was made for
AR_Item(c) == ItemOf(c.arg, request.cfg.decode_content_type)

\* the membership once the additions of the request are done
AR_MembersAfterAdds ==
    request.members \cup
        {AR_Item(c) : c \in {d \in Range(CallsOf(log, "add")) :
                                AR_Item(d) \notin request.cfg.fails}}

AR_FlatList(prefix, assigned) ==
    FlatList(ItemsFunction(prefix, assigned, request.cfg.grouped), request.cfg.grouped)

AR_Submitted(prefix) == <<prefix, "-submit">> \in request.POST.keys

AR_Valid(prefix, assigned) ==
    /\ AR_Submitted(prefix)
    /\ ChoiceFormIsValid(request.POST.selection[prefix], AR_FlatList(prefix, assigned))

C9_Expected(prefix) ==
    LET sel == request.POST.selection[prefix]
    IN [i \in DOMAIN sel |->
           Call(ActionName(prefix),
                SelectionObject(sel[i], request.cfg.decode_content_type))]

C9_Failing(calls) == {i \in DOMAIN calls : AR_Item(calls[i]) \in request.cfg.fails}

C9_UpToFirstFailure(calls) ==
    IF C9_Failing(calls) = {} THEN calls
    ELSE SubSeq(calls, 1, CHOOSE i \in C9_Failing(calls) :
                              \A j \in C9_Failing(calls) : i <= j)

C9_ErrorMessages(calls) ==
    LET failed == SelectSeq(calls, LAMBDA c : AR_Item(c) \in request.cfg.fails)
    IN [i \in DOMAIN failed |->
           Message("error", ItemObject(AR_Item(failed[i])).text,
                   "Unable to transfer selection", "")]

====
